---- MODULE Spec2Model ----
(***************************************************************************)
(* Model of simple_mechanisms/hyperparameter_optimization.py.              *)
(*                                                                         *)
(* Three specifications share this module:                                 *)
(*   SpecTable  the module-level category table builder (lines 20-28),     *)
(*              run one loop iteration per step on the program's own       *)
(*              constants and on small tables with other boundary edges;   *)
(*   SpecEval   evaluate_results (lines 91-105) as a pure function of      *)
(*              bounded logits and target epsilon;                         *)
(*   Spec       main() (lines 35-146): argument validation, penalty        *)
(*              selection, trainer and study construction and the trial    *)
(*              loop that calls objective (lines 107-125).                 *)
(*                                                                         *)
(* Arithmetic.  The program works in floating point with natural           *)
(* logarithms.  The model is exact: logarithms are taken to base 2, so     *)
(* that logits, log-probabilities and epsilon are integers (one unit is    *)
(* ln 2) and exp(x) is 2^x, and probabilities are numerators over the      *)
(* common denominator 2^ProbBits.  The trainer's logits range over the     *)
(* integer rows whose softmax normaliser is a power of two, where          *)
(* log_softmax is exact.                                                   *)
(***************************************************************************)
EXTENDS Integers, Sequences, FiniteSets, TLC

VARIABLES
    \* ---- table builder, lines 20-28 ----
    tb_n_seats,       \* n_seats given to the builder
    tb_n_cats,        \* n_cats given to the builder
    tb_cat_edges,     \* cat_edges given to the builder (1-based sequence)
    tb_i,             \* loop variable i of line 25
    tb_j,             \* category counter j of lines 24, 27
    tb_categories,    \* rows of `categories` written so far: 0..tb_i-1 -> row
    tb_pc,            \* "off" | "loop" | "done" | "IndexError"
    \* ---- evaluate_results as a pure function, lines 91-105 ----
    ev_logits,        \* argument logits (flat, row-major, 1-based)
    ev_epsilon_target,\* argument epsilon_target
    ev_result,        \* the returned tuple, as a record
    ev_pc,            \* "off" | "call" | "returned"
    \* ---- main(), lines 35-146 ----
    epsilon,          \* args.epsilon (line 63)
    delta_target,     \* args.delta (line 64), numerator over 2^ProbBits
    save_results,     \* args.save_results
    num_trials,       \* args.num_trials
    pc,               \* position in main() and in objective()
    dp_penalty_fn,    \* the partial of lines 75-78
    total_penalty,    \* the prototype closure of line 87
    n_closures,       \* closures made by create_penalty_fn so far (identity)
    task,             \* the trainer of line 88 and its penalty_fn slot
    storage,          \* "unset" | "None" | "RDBStorage" (lines 128-142)
    study,            \* the study of line 144 and its recorded trials
    db,               \* rows written to the external relational store
    trial_no,         \* number of objective calls started by study.optimize
    locals,           \* local variables of the current objective call
    trained_with,     \* the penalty_fn the trainer read in its last train call
    dp_calls          \* DP penalty primitives the trainer has invoked so far

tb_vars == <<tb_n_seats, tb_n_cats, tb_cat_edges, tb_i, tb_j, tb_categories, tb_pc>>
ev_vars == <<ev_logits, ev_epsilon_target, ev_result, ev_pc>>

main_vars == <<epsilon, delta_target, save_results, num_trials, pc, dp_penalty_fn,
               total_penalty, n_closures, task, storage, study, db, trial_no,
               locals, trained_with, dp_calls>>

vars == <<tb_vars, ev_vars, main_vars>>

----------------------------------------------------------------------------
(* Each specification leaves the other parts of the state switched off *)

TableOff ==
    /\ tb_n_seats = 0 /\ tb_n_cats = 0 /\ tb_cat_edges = <<>>
    /\ tb_i = 0 /\ tb_j = 0 /\ tb_categories = <<>> /\ tb_pc = "off"

NoResult == [log_probs |-> <<>>, log_p_correct_category |-> <<>>,
             epsilon_total |-> 0, delta_total |-> 0]

NoDpPenalty == [fn |-> "unset", eps |-> 0, delta_target |-> 0]

NoPenalty == [id |-> 0 - 1, l2_weight |-> 0, dist_weight |-> 0, dp_weight |-> 0,
              dp_penalty_fn |-> NoDpPenalty]

NoLocals == [dp_weight |-> 0, l2_weight |-> 0, dist_weight |-> 0,
             new_total_penalty |-> NoPenalty, learned_logits |-> <<>>,
             raised |-> FALSE, evaluated |-> FALSE,
             epsilon_totals |-> 0, delta_totals |-> 0]

MainOff ==
    /\ epsilon = 0 /\ delta_target = 0 /\ save_results = FALSE /\ num_trials = 0
    /\ pc = "off" /\ dp_penalty_fn = NoDpPenalty /\ total_penalty = NoPenalty
    /\ n_closures = 0 /\ task = [created |-> FALSE, penalty_fn |-> NoPenalty]
    /\ storage = "unset" /\ study = [created |-> FALSE, trials |-> <<>>]
    /\ db = <<>> /\ trial_no = 0 /\ locals = NoLocals
    /\ trained_with = [trial |-> 0, penalty |-> NoPenalty] /\ dp_calls = {}

EvalOff ==
    /\ ev_logits = <<>> /\ ev_epsilon_target = 0
    /\ ev_result = NoResult /\ ev_pc = "off"

----------------------------------------------------------------------------
(* Program constants, lines 20-22 *)

n_seats == 78
n_cats == 6
cat_edges == <<5, 40, 50, 65, 72, 78>>

(* Bounds of the small tables explored beside the program's own *)
MaxSeats == 4
MaxCats == 3

(* Bounds of the evaluator's inputs under SpecEval: a table of EvalSeats + 1
   rows and EvalCats categories, target epsilon in 1..MaxEps *)
EvalSeats == 2
EvalCats == 4
MaxEps == 2

(* Fixed-point resolution: a probability p is the integer p * 2^ProbBits *)
ProbBits == 6
ProbOne == 2 ^ ProbBits

----------------------------------------------------------------------------
(* Generic helpers *)

\* The function f itself, held as an explicit table of its values
Table(f) == f @@ <<>>

RECURSIVE SumTo(_, _, _)
\* f[lo] + ... + f[hi], summed by halves
SumTo(f, lo, hi) ==
    IF lo > hi THEN 0
    ELSE IF lo = hi THEN f[lo]
    ELSE LET mid == (lo + hi) \div 2 IN SumTo(f, lo, mid) + SumTo(f, mid + 1, hi)

RECURSIVE MaxTo(_, _, _)
\* max(f[lo], ..., f[hi]), lo <= hi
MaxTo(f, lo, hi) ==
    IF lo = hi THEN f[lo]
    ELSE LET mid == (lo + hi) \div 2
             a == MaxTo(f, lo, mid)
             b == MaxTo(f, mid + 1, hi)
         IN IF a >= b THEN a ELSE b

RECURSIVE MinTo(_, _, _)
\* min(f[lo], ..., f[hi]), lo <= hi
MinTo(f, lo, hi) ==
    IF lo = hi THEN f[lo]
    ELSE LET mid == (lo + hi) \div 2
             a == MinTo(f, lo, mid)
             b == MinTo(f, mid + 1, hi)
         IN IF a <= b THEN a ELSE b

----------------------------------------------------------------------------
(* Category table builder, lines 23-28 *)

\* A faulty eye: the row keeps index 0 set as well.
eye_keeps_first(n, j) == [c \in 0 .. (n - 1) |-> IF c = j \/ c = 0 THEN 1 ELSE 0]

\* np.eye(n_cats)[j], for 0 <= j < n_cats (line 28)
eye(n, j) == [c \in 0 .. (n - 1) |-> IF c = j THEN 1 ELSE 0]

\* The loop body with >= in place of > at line 26.
LoopBody_ge(i, j, ncats, edges) ==
    IF j >= Len(edges)
    THEN [err |-> TRUE, j |-> j, row |-> <<>>]
    ELSE LET j2 == IF i >= edges[j + 1] THEN j + 1 ELSE j IN
         IF j2 >= ncats
         THEN [err |-> TRUE, j |-> j2, row |-> <<>>]
         ELSE [err |-> FALSE, j |-> j2, row |-> eye(ncats, j2)]

\* The loop body that stays on the last category instead of stepping past it.
LoopBody_clamped(i, j, ncats, edges) ==
    LET j2 == IF j < Len(edges) /\ i > edges[j + 1] /\ j + 1 < ncats
              THEN j + 1 ELSE j IN
    [err |-> FALSE, j |-> j2, row |-> eye(ncats, j2)]

\* One iteration of the loop of lines 25-28 for seat index i, entered with
\* counter j.  cat_edges[j] (line 26) and np.eye(n_cats)[j] (line 28) raise
\* IndexError when j is past the end; j is never negative.
LoopBody(i, j, ncats, edges) ==
    IF j >= Len(edges)
    THEN [err |-> TRUE, j |-> j, row |-> <<>>]
    ELSE LET j2 == IF i > edges[j + 1] THEN j + 1 ELSE j IN
         IF j2 >= ncats
         THEN [err |-> TRUE, j |-> j2, row |-> <<>>]
         ELSE [err |-> FALSE, j |-> j2, row |-> eye(ncats, j2)]

RECURSIVE BuildRows(_, _, _, _, _)
\* The loop of lines 25-28 over the seat indices lo..hi in order, entered with
\* counter j: the rows written, the counter after it, and err when an
\* iteration raised (the later ones then do not run).  The range is run as
\* its first half followed by its second half.
BuildRows(lo, hi, j, ncats, edges) ==
    IF lo > hi THEN [err |-> FALSE, j |-> j, table |-> <<>>]
    ELSE IF lo = hi
    THEN LET r == LoopBody(lo, j, ncats, edges) IN
         [err |-> r.err, j |-> r.j, table |-> IF r.err THEN <<>> ELSE (lo :> r.row)]
    ELSE LET mid == (lo + hi) \div 2
             first == BuildRows(lo, mid, j, ncats, edges)
             second == BuildRows(mid + 1, hi, first.j, ncats, edges)
         IN IF first.err THEN first
            ELSE [err |-> second.err, j |-> second.j,
                  table |-> first.table @@ second.table]

\* The module-level table of the program (lines 23-28)
categories == BuildRows(0, n_seats, 0, n_cats, cat_edges).table

\* Index of the 1 in a one-hot row (the category a row assigns)
CatOf(row) == CHOOSE c \in DOMAIN row : row[c] = 1

----------------------------------------------------------------------------
(* evaluate_results, lines 91-105 *)

Abs(x) == IF x < 0 THEN -x ELSE x

\* jax.nn.relu and jnp.clip(x, a_min=0, a_max=None)
relu(x) == IF x > 0 THEN x ELSE 0

Min2(a, b) == IF a <= b THEN a ELSE b
Max2(a, b) == IF a >= b THEN a ELSE b

\* log2 of a power of two (the only values it is applied to)
Log2(n) == CHOOSE k \in 0 .. 30 : 2 ^ k = n

IsPowerOfTwo(n) == \E k \in 0 .. 30 : 2 ^ k = n

\* sum over the row of 2^(x - min): the softmax normaliser, scaled
ExpSum(row) ==
    LET w == Cardinality(DOMAIN row)
        lo == MinTo(row, 0, w - 1)
    IN SumTo([c \in 0 .. (w - 1) |-> 2 ^ (row[c] - lo)], 0, w - 1)

\* jax.nn.log_softmax over one row (axis=1): x - logsumexp(x)
log_softmax(row) ==
    LET w == Cardinality(DOMAIN row)
        lo == MinTo(row, 0, w - 1)
        lse == lo + Log2(ExpSum(row))
    IN Table([c \in 0 .. (w - 1) |-> row[c] - lse])

\* jnp.exp of a log-probability: the numerator of 2^x over 2^ProbBits
exp(x) == 2 ^ (ProbBits + x)

\* logits.reshape(n_seats+1, -1): row-major, the width inferred (line 92)
reshape(logits, rows) ==
    LET w == Len(logits) \div rows IN
    [i \in 0 .. (rows - 1) |-> [c \in 0 .. (w - 1) |-> logits[i * w + c + 1]]]

\* Line 98 without jnp.abs: only increases of the log-probability count.
epsilon_total_signed(log_probs, epsilon_target) ==
    LET rows == Cardinality(DOMAIN log_probs)
        w == Cardinality(DOMAIN log_probs[0])
        excess == [i \in 0 .. (rows - 2) |->
                     MaxTo([c \in 0 .. (w - 1) |->
                               relu((log_probs[i + 1][c] - log_probs[i][c])
                                    - epsilon_target)], 0, w - 1)]
    IN MaxTo(excess, 0, rows - 2)

\* Line 98: jnp.max(relu(|log_probs[1:] - log_probs[:-1]| - epsilon_target))
epsilon_total_of(log_probs, epsilon_target) ==
    LET rows == Cardinality(DOMAIN log_probs)
        w == Cardinality(DOMAIN log_probs[0])
        excess == [i \in 0 .. (rows - 2) |->
                     MaxTo([c \in 0 .. (w - 1) |->
                               relu(Abs(log_probs[i + 1][c] - log_probs[i][c])
                                    - epsilon_target)], 0, w - 1)]
    IN MaxTo(excess, 0, rows - 2)

\* Lines 101-102 with the clip applied to the row sum instead of to each
\* category's term.
delta_direction_clip_after_sum(from, to, epsilon_target) ==
    LET rows == Cardinality(DOMAIN from)
        w == Cardinality(DOMAIN from[0])
        per_pair == [i \in 0 .. (rows - 1) |->
                       relu(SumTo([c \in 0 .. (w - 1) |->
                                 from[i][c] - (2 ^ epsilon_target) * to[i][c]],
                             0, w - 1))]
    IN MaxTo(per_pair, 0, rows - 1)

\* Lines 101-102: jnp.max(jnp.sum(jnp.clip(from - exp(eps)*to, a_min=0), 1))
\* over the already sliced arrays from and to (one row per adjacent pair)
delta_direction(from, to, epsilon_target) ==
    LET rows == Cardinality(DOMAIN from)
        w == Cardinality(DOMAIN from[0])
        per_pair == [i \in 0 .. (rows - 1) |->
                       SumTo([c \in 0 .. (w - 1) |->
                                 relu(from[i][c] - (2 ^ epsilon_target) * to[i][c])],
                             0, w - 1)]
    IN MaxTo(per_pair, 0, rows - 1)

\* evaluate_results (lines 91-105) for a table cats of nseats + 1 rows
evaluate_results_on(nseats, cats, logits, epsilon_target) ==
    LET log_probs == Table([i \in 0 .. nseats |->
                        log_softmax(reshape(logits, nseats + 1)[i])])
        w == Cardinality(DOMAIN log_probs[0])
        \* line 94: np.where(categories) lists the non-zero entries row by row
        log_p_correct_category == [i \in 0 .. nseats |-> log_probs[i][CatOf(cats[i])]]
        probs == Table([i \in 0 .. nseats |->
                    Table([c \in 0 .. (w - 1) |-> exp(log_probs[i][c])])])
        head == [i \in 0 .. (nseats - 1) |-> probs[i]]          \* probs[:-1,:]
        tail == [i \in 0 .. (nseats - 1) |-> probs[i + 1]]      \* probs[1:,:]
        delta_add == delta_direction(head, tail, epsilon_target)
        delta_remove == delta_direction(tail, head, epsilon_target)
    IN [log_probs |-> log_probs,
        log_p_correct_category |-> log_p_correct_category,
        epsilon_total |-> epsilon_total_of(log_probs, epsilon_target),
        delta_total |-> Max2(delta_add, delta_remove)]

\* evaluate_results as main() defines it, over the module-level table
evaluate_results(logits, epsilon_target) ==
    evaluate_results_on(n_seats, categories, logits, epsilon_target)

----------------------------------------------------------------------------
(* SpecEval: the evaluator applied to bounded logits *)

\* Integer logit rows of width w whose softmax normaliser is a power of two,
\* normalised so that the smallest logit is 0 (log_softmax is exact on them)
LogitRows(w) ==
    {r \in [0 .. (w - 1) -> 0 .. 2] :
        /\ \E c \in 0 .. (w - 1) : r[c] = 0
        /\ IsPowerOfTwo(ExpSum(r))}

\* A small covering table for the evaluator's inputs
EvalEdges == [a \in 1 .. EvalCats |-> IF a < EvalCats THEN Min2(a - 1, EvalSeats) ELSE EvalSeats]
EvalCategories == BuildRows(0, EvalSeats, 0, EvalCats, EvalEdges).table

\* Row-major flattening of a matrix (rows and columns counted from 0) into
\* a sequence
Flatten(m) ==
    LET w == Cardinality(DOMAIN m[0]) IN
    Table([k \in 1 .. (Cardinality(DOMAIN m) * w) |-> m[(k - 1) \div w][(k - 1) % w]])

EvalLogits == {Flatten(m) : m \in [0 .. EvalSeats -> LogitRows(EvalCats)]}

EvalInit ==
    /\ TableOff
    /\ MainOff
    /\ ev_logits \in EvalLogits
    /\ ev_epsilon_target \in 1 .. MaxEps
    /\ ev_result = NoResult
    /\ ev_pc = "call"

Evaluate ==
    /\ ev_pc = "call"
    /\ ev_result' = evaluate_results_on(EvalSeats, EvalCategories, ev_logits,
                                        ev_epsilon_target)
    /\ ev_pc' = "returned"
    /\ UNCHANGED <<ev_logits, ev_epsilon_target, tb_vars, main_vars>>

EvalNext == Evaluate

SpecEval == EvalInit /\ [][EvalNext]_vars

----------------------------------------------------------------------------
(* SpecTable: the builder, one loop iteration per step *)

\* Non-decreasing edge sequences of length k over 0..hi
AscendingEdges(k, hi) ==
    {e \in [1 .. k -> 0 .. hi] : \A a \in 1 .. (k - 1) : e[a] <= e[a + 1]}

StrictlyAscending(e) == \A a \in 1 .. (Len(e) - 1) : e[a] < e[a + 1]

TableInputs ==
    {[n_seats |-> n_seats, n_cats |-> n_cats, cat_edges |-> cat_edges]}
    \cup UNION {{[n_seats |-> s, n_cats |-> k, cat_edges |-> e] :
                    s \in 1 .. MaxSeats, e \in AscendingEdges(k, MaxSeats)} :
                k \in 1 .. MaxCats}

TableInit ==
    /\ EvalOff
    /\ MainOff
    /\ \E inp \in TableInputs :
          /\ tb_n_seats = inp.n_seats
          /\ tb_n_cats = inp.n_cats
          /\ tb_cat_edges = inp.cat_edges
    /\ tb_i = 0
    /\ tb_j = 0
    /\ tb_categories = <<>>
    /\ tb_pc = "loop"

\* Lines 25-28: one iteration; the loop ends after i = n_seats.
TableIter ==
    /\ tb_pc = "loop"
    /\ LET r == LoopBody(tb_i, tb_j, tb_n_cats, tb_cat_edges) IN
          /\ tb_j' = r.j
          /\ IF r.err
             THEN /\ tb_pc' = "IndexError"
                  /\ UNCHANGED <<tb_i, tb_categories>>
             ELSE /\ tb_categories' = tb_categories @@ (tb_i :> r.row)
                  /\ tb_i' = tb_i + 1
                  /\ tb_pc' = IF tb_i = tb_n_seats THEN "done" ELSE "loop"
    /\ UNCHANGED <<tb_n_seats, tb_n_cats, tb_cat_edges, ev_vars, main_vars>>

TableNext == TableIter

SpecTable == TableInit /\ [][TableNext]_vars

----------------------------------------------------------------------------
(* main(), lines 35-146 *)

\* Bound on args.num_trials
MaxTrials == 2

\* Weights are counted in units of 1e-5.
\* Ranges of trial.suggest_float, lines 108-110
DpWeightLow == 100
DpWeightHigh == 1000000
L2WeightLow == 10
L2WeightHigh == 100000
DistWeightLow == 1
DistWeightHigh == 100
\* Prototype weights, line 87
ProtoL2Weight == 100
ProtoDistWeight == 100
ProtoDpWeight == 1000000
\* 1 / 1e-3, the threshold of line 124
DistLossThresholdInv == 1000

\* Values of --epsilon and --delta tried (delta over 2^ProbBits: 0, 1/4, 1
\* and the invalid -1/2^ProbBits and 3/2)
EpsilonArgs == {0 - 1, 0, 1, 2}
DeltaArgs == {0 - 1, 0, ProbOne \div 4, ProbOne, (3 * ProbOne) \div 2}

\* The assertion of line 66 with epsilon >= 0 in place of epsilon > 0.
privacy_params_ok_nonstrict(eps, delta) == eps >= 0 /\ 0 <= delta /\ delta <= ProbOne

\* The condition asserted at line 66
privacy_params_ok(eps, delta) == eps > 0 /\ 0 <= delta /\ delta <= ProbOne

\* Lines 75-78 with the test on epsilon instead of delta_target.
select_dp_penalty_fn_wrong_test(eps, delta) ==
    IF eps = 0
    THEN [fn |-> "pure_dp_penalty", eps |-> eps, delta_target |-> 0]
    ELSE [fn |-> "adp_penalty", eps |-> eps, delta_target |-> delta]

\* Lines 75-78: the DP penalty, chosen by delta_target == 0
select_dp_penalty_fn(eps, delta) ==
    IF delta = 0
    THEN [fn |-> "pure_dp_penalty", eps |-> eps, delta_target |-> 0]
    ELSE [fn |-> "adp_penalty", eps |-> eps, delta_target |-> delta]

\* create_penalty_fn (lines 80-83): a new closure over the three weights and
\* over dp_penalty_fn of the enclosing scope (assigned once, before any call)
create_penalty_fn(id, l2_weight, dist_weight, dp_weight, dp_fn) ==
    [id |-> id, l2_weight |-> l2_weight, dist_weight |-> dist_weight,
     dp_weight |-> dp_weight, dp_penalty_fn |-> dp_fn]

\* Line 113 left out: the trainer keeps the penalty it had.
install_penalty_skipped(t, penalty) == t

\* Line 113: task.penalty_fn = new_total_penalty
install_penalty(t, penalty) == [t EXCEPT !.penalty_fn = penalty]

\* An objective that swallows the trainer's exception and carries on.
after_train_raises_swallowed == "evaluate"

\* Where control goes when task.train raises at line 115: objective has no
\* try/except, so the exception leaves it and reaches study.optimize
after_train_raises == "trial_failed"

\* Line 121 with the excess itself instead of its distance to epsilon.
dp_params_loss_excess_only(epsilon_totals, eps, delta_totals, delta) ==
    ProbOne * epsilon_totals + Abs(delta_totals - delta)

\* Line 121: norm(epsilon_totals - epsilon) + norm(delta_totals - delta_target),
\* the norm of a scalar being its absolute value; in units of 2^-ProbBits
dp_params_loss_of(epsilon_totals, eps, delta_totals, delta) ==
    ProbOne * Abs(epsilon_totals - eps) + Abs(delta_totals - delta)

\* Line 31: distances[a][b] = |a - b|
distances == [a \in 0 .. (n_cats - 1) |-> [b \in 0 .. (n_cats - 1) |-> Abs(a - b)]]

\* Line 32 (and line 123): categories @ distances
distance_matrix ==
    Table([i \in 0 .. n_seats |-> Table([c \in 0 .. (n_cats - 1) |->
        SumTo([j \in 0 .. (n_cats - 1) |-> categories[i][j] * distances[j][c]],
              0, n_cats - 1)])])

\* np.argmax of a row: the first index of the largest entry
argmax(row) ==
    CHOOSE c \in DOMAIN row :
        /\ \A d \in DOMAIN row : row[d] <= row[c]
        /\ \A d \in DOMAIN row : d < c => row[d] < row[c]

\* Line 123: for each seat the category furthest from its own
furthest_cat == Table([i \in 0 .. n_seats |-> argmax(distance_matrix[i])])

\* Lines 119-125: the four returned values.  The two norms are kept as
\* their squares (logp_loss^2 and the square of the fourth value).
objective_values(r, eps, delta) ==
    LET furthest_cat_logp == [i \in 0 .. n_seats |-> r.log_probs[i][furthest_cat[i]]]
    IN <<SumTo([i \in 0 .. n_seats |-> r.log_p_correct_category[i]
                                      * r.log_p_correct_category[i]], 0, n_seats),
         dp_params_loss_of(r.epsilon_total, eps, r.delta_total, delta),
         Cardinality({i \in 0 .. n_seats :
             DistLossThresholdInv * exp(furthest_cat_logp[i]) > ProbOne}),
         SumTo([i \in 0 .. n_seats |-> exp(furthest_cat_logp[i])
                                      * exp(furthest_cat_logp[i])], 0, n_seats)>>

\* Results task.train may return: every seat up to the second boundary edge
\* reports with the logits RowA, every later seat with one of TrainerRows.
RowA == [c \in 0 .. (n_cats - 1) |-> <<2, 2, 2, 1, 0, 0>>[c + 1]]
TrainerRows ==
    {RowA,
     [c \in 0 .. (n_cats - 1) |-> <<2, 2, 1, 2, 0, 0>>[c + 1]],
     [c \in 0 .. (n_cats - 1) |-> <<0, 0, 1, 2, 2, 2>>[c + 1]]}
TrainedLogits ==
    {Flatten([i \in 0 .. n_seats |-> IF i <= cat_edges[2] THEN RowA ELSE r]) :
        r \in TrainerRows}

\* Triples (dp_weight, l2_weight, dist_weight) the three suggest_float calls
\* of lines 108-110 may return: the ends of the ranges
WeightSamples ==
    {<<dp, l2, dist>> : dp \in {DpWeightLow, DpWeightHigh},
                        l2 \in {L2WeightLow, L2WeightHigh},
                        dist \in {DistWeightLow, DistWeightHigh}}

MainInit ==
    /\ TableOff
    /\ EvalOff
    /\ epsilon \in EpsilonArgs
    /\ delta_target \in DeltaArgs
    /\ save_results \in BOOLEAN
    /\ num_trials \in 0 .. MaxTrials
    /\ pc = "assert"
    /\ dp_penalty_fn = NoDpPenalty
    /\ total_penalty = NoPenalty
    /\ n_closures = 0
    /\ task = [created |-> FALSE, penalty_fn |-> NoPenalty]
    /\ storage = "unset"
    /\ study = [created |-> FALSE, trials |-> <<>>]
    /\ db = <<>>
    /\ trial_no = 0
    /\ locals = NoLocals
    /\ trained_with = [trial |-> 0, penalty |-> NoPenalty]
    /\ dp_calls = {}

\* Line 66: the assertion; on failure AssertionError ends the process.
AssertPrivacyParams ==
    /\ pc = "assert"
    /\ pc' = IF privacy_params_ok(epsilon, delta_target) THEN "select_dp" ELSE "aborted"
    /\ UNCHANGED <<epsilon, delta_target, save_results, num_trials, dp_penalty_fn,
                   total_penalty, n_closures, task, storage, study, db, trial_no,
                   locals, trained_with, dp_calls, tb_vars, ev_vars>>

\* Lines 74-78: the prototype partials
SelectDpPenalty ==
    /\ pc = "select_dp"
    /\ dp_penalty_fn' = select_dp_penalty_fn(epsilon, delta_target)
    /\ pc' = "create_task"
    /\ UNCHANGED <<epsilon, delta_target, save_results, num_trials, total_penalty,
                   n_closures, task, storage, study, db, trial_no, locals,
                   trained_with, dp_calls, tb_vars, ev_vars>>

\* Lines 87-88: the prototype penalty and the trainer built around it
CreateTask ==
    /\ pc = "create_task"
    /\ total_penalty' = create_penalty_fn(n_closures, ProtoL2Weight, ProtoDistWeight,
                                          ProtoDpWeight, dp_penalty_fn)
    /\ n_closures' = n_closures + 1
    /\ task' = [created |-> TRUE, penalty_fn |-> total_penalty']
    /\ pc' = "storage"
    /\ UNCHANGED <<epsilon, delta_target, save_results, num_trials, dp_penalty_fn,
                   storage, study, db, trial_no, locals, trained_with, dp_calls,
                   tb_vars, ev_vars>>

\* Lines 128-142: the persistence backend
ConfigureStorage ==
    /\ pc = "storage"
    /\ storage' = IF save_results THEN "RDBStorage" ELSE "None"
    /\ pc' = "create_study"
    /\ UNCHANGED <<epsilon, delta_target, save_results, num_trials, dp_penalty_fn,
                   total_penalty, n_closures, task, study, db, trial_no, locals,
                   trained_with, dp_calls, tb_vars, ev_vars>>

\* Rows the study writes reach the store only with the RDB backend
Persist(row) == IF storage = "RDBStorage" THEN Append(db, row) ELSE db

\* Lines 144-145: optuna.create_study
CreateStudy ==
    /\ pc = "create_study"
    /\ study' = [created |-> TRUE, trials |-> <<>>]
    /\ db' = Persist([kind |-> "study", number |-> 0, state |-> "CREATED", values |-> <<>>])
    /\ pc' = "optimize"
    /\ UNCHANGED <<epsilon, delta_target, save_results, num_trials, dp_penalty_fn,
                   total_penalty, n_closures, task, storage, trial_no, locals,
                   trained_with, dp_calls, tb_vars, ev_vars>>

\* Line 146: study.optimize calls objective for the next trial, or returns
\* after n_trials calls.
OptimizeNextTrial ==
    /\ pc = "optimize"
    /\ IF trial_no < num_trials
       THEN /\ trial_no' = trial_no + 1
            /\ locals' = NoLocals
            /\ pc' = "suggest"
       ELSE /\ pc' = "done"
            /\ UNCHANGED <<trial_no, locals>>
    /\ UNCHANGED <<epsilon, delta_target, save_results, num_trials, dp_penalty_fn,
                   total_penalty, n_closures, task, storage, study, db,
                   trained_with, dp_calls, tb_vars, ev_vars>>

\* Lines 108-110: the three weights are sampled
ObjectiveSuggest ==
    /\ pc = "suggest"
    /\ \E w \in WeightSamples :
          locals' = [locals EXCEPT !.dp_weight = w[1], !.l2_weight = w[2],
                                   !.dist_weight = w[3]]
    /\ pc' = "compose"
    /\ UNCHANGED <<epsilon, delta_target, save_results, num_trials, dp_penalty_fn,
                   total_penalty, n_closures, task, storage, study, db, trial_no,
                   trained_with, dp_calls, tb_vars, ev_vars>>

\* Line 112: a new closure from the sampled weights
ObjectiveCompose ==
    /\ pc = "compose"
    /\ locals' = [locals EXCEPT !.new_total_penalty =
                     create_penalty_fn(n_closures, locals.l2_weight, locals.dist_weight,
                                       locals.dp_weight, dp_penalty_fn)]
    /\ n_closures' = n_closures + 1
    /\ pc' = "install"
    /\ UNCHANGED <<epsilon, delta_target, save_results, num_trials, dp_penalty_fn,
                   total_penalty, task, storage, study, db, trial_no,
                   trained_with, dp_calls, tb_vars, ev_vars>>

\* Line 113: the closure is put into the trainer's penalty slot
ObjectiveInstall ==
    /\ pc = "install"
    /\ task' = install_penalty(task, locals.new_total_penalty)
    /\ pc' = "train"
    /\ UNCHANGED <<epsilon, delta_target, save_results, num_trials, dp_penalty_fn,
                   total_penalty, n_closures, storage, study, db, trial_no, locals,
                   trained_with, dp_calls, tb_vars, ev_vars>>

\* Line 115: task.train reads the penalty slot, evaluates the penalty (and so
\* its DP term) and returns logits, or raises.
ObjectiveTrain ==
    /\ pc = "train"
    /\ trained_with' = [trial |-> trial_no, penalty |-> task.penalty_fn]
    /\ dp_calls' = dp_calls \cup {task.penalty_fn.dp_penalty_fn.fn}
    /\ \/ /\ \E lg \in TrainedLogits :
                locals' = [locals EXCEPT !.learned_logits = lg]
          /\ pc' = "evaluate"
       \/ /\ locals' = [locals EXCEPT !.raised = TRUE]
          /\ pc' = after_train_raises
    /\ UNCHANGED <<epsilon, delta_target, save_results, num_trials, dp_penalty_fn,
                   total_penalty, n_closures, task, storage, study, db, trial_no,
                   tb_vars, ev_vars>>

\* Lines 117-125: the evaluator runs, the four values are computed and
\* returned; study.optimize records the trial as complete.
ObjectiveEvaluate ==
    /\ pc = "evaluate"
    /\ LET r == evaluate_results(locals.learned_logits, epsilon)
           row == [kind |-> "trial", number |-> trial_no, state |-> "COMPLETE",
                   values |-> objective_values(r, epsilon, delta_target)]
       IN /\ locals' = [locals EXCEPT !.evaluated = TRUE,
                                      !.epsilon_totals = r.epsilon_total,
                                      !.delta_totals = r.delta_total]
          /\ study' = [study EXCEPT !.trials = Append(@, row)]
          /\ db' = Persist(row)
    /\ pc' = "optimize"
    /\ UNCHANGED <<epsilon, delta_target, save_results, num_trials, dp_penalty_fn,
                   total_penalty, n_closures, task, storage, trial_no,
                   trained_with, dp_calls, tb_vars, ev_vars>>

\* Line 146: study.optimize receives the exception of a trial, records the
\* trial as failed, and goes on to the next trial or lets the exception end
\* the process.
OptimizeTrialFailed ==
    /\ pc = "trial_failed"
    /\ LET row == [kind |-> "trial", number |-> trial_no, state |-> "FAIL",
                   values |-> <<>>]
       IN /\ study' = [study EXCEPT !.trials = Append(@, row)]
          /\ db' = Persist(row)
    /\ pc' \in {"optimize", "crashed"}
    /\ UNCHANGED <<epsilon, delta_target, save_results, num_trials, dp_penalty_fn,
                   total_penalty, n_closures, task, storage, trial_no, locals,
                   trained_with, dp_calls, tb_vars, ev_vars>>

Next ==
    \/ AssertPrivacyParams
    \/ SelectDpPenalty
    \/ CreateTask
    \/ ConfigureStorage
    \/ CreateStudy
    \/ OptimizeNextTrial
    \/ ObjectiveSuggest
    \/ ObjectiveCompose
    \/ ObjectiveInstall
    \/ ObjectiveTrain
    \/ ObjectiveEvaluate
    \/ OptimizeTrialFailed

Spec == MainInit /\ [][Next]_vars

----------------------------------------------------------------------------
(* Claims about the table builder (checked under SpecTable) *)

RowIsOneHot(row) ==
    /\ \E c \in DOMAIN row :
          /\ row[c] = 1
          /\ \A d \in DOMAIN row \ {c} : row[d] = 0
    /\ SumTo(row, 0, Cardinality(DOMAIN row) - 1) = 1

\* The category a written row assigns, read without assuming it is one-hot
AssignedCat(row) == CHOOSE c \in DOMAIN row : row[c] = 1 /\ \A d \in DOMAIN row : row[d] = 1 => c <= d

LastEdge == tb_cat_edges[Len(tb_cat_edges)]

\* C3: every row of the category table is one-hot (exactly one entry is 1,
\* the others 0, the row sums to 1) and the assigned category never
\* decreases as the seat index grows, for ascending boundary edges.
C3_OneHotMonotone ==
    /\ \A i \in DOMAIN tb_categories : RowIsOneHot(tb_categories[i])
    /\ \A a, b \in DOMAIN tb_categories :
          a <= b => AssignedCat(tb_categories[a]) <= AssignedCat(tb_categories[b])

\* C3 witness: the program's own table is complete, with all 79 rows and
\* more than one category in use.
C3_Witness ==
    /\ tb_pc = "done"
    /\ tb_n_seats = n_seats /\ tb_cat_edges = cat_edges
    /\ DOMAIN tb_categories = 0 .. n_seats
    /\ AssignedCat(tb_categories[0]) < AssignedCat(tb_categories[n_seats])

\* Smallest 0-based category j with i <= cat_edges[j]
SmallestCovering(i, edges) ==
    CHOOSE j \in 0 .. (Len(edges) - 1) :
        /\ i <= edges[j + 1]
        /\ \A k \in 0 .. (j - 1) : i > edges[k + 1]

\* C4: with n_seats = 78, n_cats = 6 and cat_edges = [5,40,50,65,72,78]
\* seat 0 is category 0, seat 6 category 1 and seat 78 category 5; and a
\* seat index i is given the smallest category j with i <= cat_edges[j]
\* (on the program's table and on every table with strictly ascending
\* edges).
C4_EdgeLookup ==
    /\ StrictlyAscending(tb_cat_edges) =>
          \A i \in DOMAIN tb_categories :
              AssignedCat(tb_categories[i]) = SmallestCovering(i, tb_cat_edges)
    /\ (tb_pc = "done" /\ tb_n_seats = n_seats /\ tb_n_cats = n_cats
            /\ tb_cat_edges = cat_edges) =>
          /\ AssignedCat(tb_categories[0]) = 0
          /\ AssignedCat(tb_categories[6]) = 1
          /\ AssignedCat(tb_categories[78]) = 5
          /\ tb_categories = categories

\* C4 witness: the builder has finished on the program's constants and
\* seat 6 sits in category 1.
C4_Witness ==
    /\ tb_pc = "done"
    /\ tb_n_seats = 78 /\ tb_n_cats = 6 /\ tb_cat_edges = <<5, 40, 50, 65, 72, 78>>
    /\ tb_categories[6] = eye(6, 1)

\* C8 as claimed: with ascending edges whose last edge is smaller than
\* n_seats the build completes without an error and every seat index
\* beyond the last edge holds the last category.
C8_AsClaimed ==
    LastEdge < tb_n_seats =>
        /\ tb_pc # "IndexError"
        /\ tb_pc = "done" =>
              \A i \in (LastEdge + 1) .. tb_n_seats :
                  AssignedCat(tb_categories[i]) = tb_n_cats - 1

\* C8 amended: with strictly ascending edges whose last edge is smaller
\* than n_seats the build never completes; it raises IndexError at seat
\* index last edge + 1, where the counter j steps to n_cats, with exactly
\* the rows 0..last edge written and no row beyond the last edge.
C8_RaisesPastLastEdge ==
    (StrictlyAscending(tb_cat_edges) /\ LastEdge < tb_n_seats) =>
        /\ tb_pc # "done"
        /\ \A i \in DOMAIN tb_categories : i <= LastEdge
        /\ tb_pc = "IndexError" =>
              /\ tb_i = LastEdge + 1
              /\ tb_j = tb_n_cats
              /\ DOMAIN tb_categories = 0 .. LastEdge

\* C8 witness: a build over strictly ascending edges that stop short of
\* n_seats has raised IndexError after using more than one category.
C8_Witness ==
    /\ tb_pc = "IndexError"
    /\ StrictlyAscending(tb_cat_edges)
    /\ LastEdge < tb_n_seats
    /\ tb_n_cats >= 2
    /\ tb_i > 1

----------------------------------------------------------------------------
(* Claims about evaluate_results (checked under SpecEval) *)

\* Adjacent seat pairs and categories of the returned log_probs
EvPairs == 0 .. (EvalSeats - 1)
EvCats == 0 .. (EvalCats - 1)

\* |log_probs[i+1][c] - log_probs[i][c]| of the returned log_probs
EvLogGap(i, c) == Abs(ev_result.log_probs[i + 1][c] - ev_result.log_probs[i][c])

\* C5: if every adjacent-seat log-probability difference is within
\* epsilon_target, epsilon_total is exactly 0; otherwise it is the largest
\* excess of such a difference over epsilon_target, and positive.
C5_EpsilonTotal ==
    ev_pc = "returned" =>
        IF \A i \in EvPairs, c \in EvCats : EvLogGap(i, c) <= ev_epsilon_target
        THEN ev_result.epsilon_total = 0
        ELSE /\ ev_result.epsilon_total > 0
             /\ \E i \in EvPairs, c \in EvCats :
                   ev_result.epsilon_total = EvLogGap(i, c) - ev_epsilon_target
             /\ \A i \in EvPairs, c \in EvCats :
                   EvLogGap(i, c) - ev_epsilon_target <= ev_result.epsilon_total

\* C5 witness: the evaluator returned 0 on logits whose rows differ, one
\* difference sitting exactly on the budget.
C5_Witness ==
    /\ ev_pc = "returned"
    /\ ev_result.epsilon_total = 0
    /\ \E i \in EvPairs, c \in EvCats : EvLogGap(i, c) = ev_epsilon_target

\* Probability of category c at seat i, from the returned log_probs
EvProb(i, c) == 2 ^ (ProbBits + ev_result.log_probs[i][c])

\* p_i - e^eps * p_(i+1) for category c ("add"), and its mirror ("remove")
EvAddTerm(i, c) == EvProb(i, c) - (2 ^ ev_epsilon_target) * EvProb(i + 1, c)
EvRemoveTerm(i, c) == EvProb(i + 1, c) - (2 ^ ev_epsilon_target) * EvProb(i, c)

\* Sum over the categories of the positive terms only
EvAddViolation(i) ==
    SumTo([c \in EvCats |-> IF EvAddTerm(i, c) > 0 THEN EvAddTerm(i, c) ELSE 0],
          0, EvalCats - 1)
EvRemoveViolation(i) ==
    SumTo([c \in EvCats |-> IF EvRemoveTerm(i, c) > 0 THEN EvRemoveTerm(i, c) ELSE 0],
          0, EvalCats - 1)

\* C9: delta_total is the larger of delta_add and delta_remove, each the
\* largest over adjacent pairs of the summed positive parts; slack in one
\* category never lowers a pair's violation; delta_total >= 0, and it is 0
\* exactly when no category of any adjacent pair violates the bound in
\* either direction.
C9_DeltaTotal ==
    ev_pc = "returned" =>
        /\ ev_result.delta_total >= 0
        /\ \A i \in EvPairs :
              /\ EvAddViolation(i) <= ev_result.delta_total
              /\ EvRemoveViolation(i) <= ev_result.delta_total
        /\ \E i \in EvPairs :
              \/ ev_result.delta_total = EvAddViolation(i)
              \/ ev_result.delta_total = EvRemoveViolation(i)
        /\ \A i \in EvPairs, c \in EvCats :
              /\ EvAddTerm(i, c) <= ev_result.delta_total
              /\ EvRemoveTerm(i, c) <= ev_result.delta_total
        /\ ev_result.delta_total = 0 <=>
              \A i \in EvPairs, c \in EvCats :
                  EvAddTerm(i, c) <= 0 /\ EvRemoveTerm(i, c) <= 0

\* C9 witness: a pair with one violating category and another with slack
\* larger than the violation; the violation still shows in delta_total.
C9_Witness ==
    /\ ev_pc = "returned"
    /\ \E i \in EvPairs : \E c, d \in EvCats :
          /\ EvAddTerm(i, c) > 0
          /\ EvAddTerm(i, c) + EvAddTerm(i, d) < 0
          /\ ev_result.delta_total = EvAddViolation(i)
          /\ ev_result.delta_total > 0

----------------------------------------------------------------------------
(* Claims about main() and objective (checked under Spec) *)

\* epsilon > 0 and delta in [0, 1], as the specification words it
ValidPrivacyParams == epsilon >= 1 /\ delta_target >= 0 /\ delta_target <= ProbOne

\* C1: started with epsilon <= 0 or delta outside [0,1], main() stops at the
\* assertion: no DP penalty is chosen, no closure, trainer, storage backend
\* or study is created, no trial starts, the trainer is never called and
\* nothing is written to the store.
C1_AbortBeforeSetup ==
    ~ValidPrivacyParams =>
        /\ pc \in {"assert", "aborted"}
        /\ dp_penalty_fn = NoDpPenalty
        /\ n_closures = 0
        /\ ~task.created
        /\ storage = "unset"
        /\ ~study.created /\ study.trials = <<>>
        /\ db = <<>>
        /\ trial_no = 0
        /\ trained_with.trial = 0 /\ dp_calls = {}

\* C1 witness: the process has aborted on epsilon = 0 with an otherwise valid
\* delta, persistence having been asked for.
C1_Witness ==
    /\ pc = "aborted"
    /\ epsilon = 0
    /\ delta_target = 0
    /\ save_results

\* The DP penalty the target delta calls for
ExpectedDpPenalty == IF delta_target = 0 THEN "pure_dp_penalty" ELSE "adp_penalty"

\* C2: the DP term is the pure-DP penalty exactly when the target delta is 0
\* and the approximate-DP penalty for delta > 0, in the partial chosen at
\* startup, in the prototype penalty, in every trial's penalty, in the
\* trainer's penalty slot and in every DP primitive the trainer invoked.
C2_DpPenaltyChoice ==
    /\ dp_penalty_fn # NoDpPenalty =>
          /\ dp_penalty_fn.fn = ExpectedDpPenalty
          /\ dp_penalty_fn.fn = "adp_penalty" <=> delta_target > 0
    /\ total_penalty # NoPenalty => total_penalty.dp_penalty_fn.fn = ExpectedDpPenalty
    /\ task.created => task.penalty_fn.dp_penalty_fn.fn = ExpectedDpPenalty
    /\ locals.new_total_penalty # NoPenalty =>
          locals.new_total_penalty.dp_penalty_fn.fn = ExpectedDpPenalty
    /\ trained_with.trial >= 1 =>
          trained_with.penalty.dp_penalty_fn.fn = ExpectedDpPenalty
    /\ dp_calls \subseteq {ExpectedDpPenalty}

\* C2 witness: an objective call with epsilon = 1, delta = 0 has returned its
\* values, the trainer having invoked the pure-DP penalty and no other.
C2_Witness ==
    /\ epsilon = 1 /\ delta_target = 0
    /\ locals.evaluated /\ ~locals.raised
    /\ study.trials[trial_no].state = "COMPLETE"
    /\ dp_calls = {"pure_dp_penalty"}

\* C6: when train is about to run in trial k, and after it ran, the penalty
\* the trainer holds and read is the closure made in trial k from trial k's
\* sampled weights: not the prototype, not an earlier trial's closure.
C6_TrainUsesTrialPenalty ==
    /\ pc = "train" =>
          /\ task.penalty_fn = locals.new_total_penalty
          /\ task.penalty_fn.id = trial_no
          /\ task.penalty_fn.id # total_penalty.id
          /\ task.penalty_fn.dp_weight = locals.dp_weight
          /\ task.penalty_fn.l2_weight = locals.l2_weight
          /\ task.penalty_fn.dist_weight = locals.dist_weight
    /\ trained_with.trial >= 1 =>
          /\ trained_with.penalty.id = trained_with.trial
          /\ trained_with.penalty # total_penalty
    /\ (trial_no >= 1 /\ trained_with.trial = trial_no) =>
          /\ trained_with.penalty = locals.new_total_penalty
          /\ trained_with.penalty.dp_weight = locals.dp_weight
          /\ trained_with.penalty.l2_weight = locals.l2_weight
          /\ trained_with.penalty.dist_weight = locals.dist_weight
    /\ pc \in {"suggest", "compose", "install"} => trained_with.trial < trial_no

\* C6 witness: the second trial has trained, with the second trial's closure.
C6_Witness ==
    /\ pc = "evaluate"
    /\ trial_no = 2
    /\ trained_with.trial = 2
    /\ trained_with.penalty.id = 2

\* C7: once train has raised in a trial, objective does nothing more: the
\* evaluator is not run, control is with study.optimize, and the trial gets
\* no values (it is recorded as failed with none).
C7_TrainExceptionPropagates ==
    locals.raised =>
        /\ ~locals.evaluated
        /\ locals.learned_logits = <<>>
        /\ pc \in {"trial_failed", "optimize", "crashed", "done"}
        /\ pc = "trial_failed" => Len(study.trials) = trial_no - 1
        /\ pc # "trial_failed" =>
              /\ Len(study.trials) = trial_no
              /\ study.trials[trial_no].state = "FAIL"
              /\ study.trials[trial_no].values = <<>>

\* C7 witness: train raised in the second trial, after a first trial that
\* returned its four values.
C7_Witness ==
    /\ locals.raised
    /\ pc = "trial_failed"
    /\ trial_no = 2
    /\ study.trials[1].state = "COMPLETE"

\* The second returned value of the current trial
CurrentDpParamsLoss == study.trials[trial_no].values[2]

\* C10: dp_params_loss is |epsilon_total - epsilon| + |delta_total - delta|
\* (here times 2^ProbBits); so when the budget is respected
\* (epsilon_total = 0) it is at least epsilon and positive, and it is 0 only
\* when epsilon_total equals epsilon.
C10_DpParamsLoss ==
    locals.evaluated =>
        /\ locals.epsilon_totals >= 0
        /\ CurrentDpParamsLoss =
              ProbOne * Abs(locals.epsilon_totals - epsilon)
              + Abs(locals.delta_totals - delta_target)
        /\ locals.epsilon_totals = 0 =>
              /\ CurrentDpParamsLoss >= ProbOne * epsilon
              /\ CurrentDpParamsLoss > 0
        /\ CurrentDpParamsLoss = 0 => locals.epsilon_totals = epsilon

\* C10 witness: a trial whose mechanism respects the budget and meets the
\* target delta exactly, and is still charged epsilon.
C10_Witness ==
    /\ locals.evaluated
    /\ locals.epsilon_totals = 0
    /\ locals.delta_totals = delta_target
    /\ CurrentDpParamsLoss = ProbOne * epsilon

====
